---- MODULE Spec2Model ----
(***************************************************************************)
(* A model of the expense tracker CLI: src/expense_tracker.py (called v1   *)
(* below) and src/expense_tracker2.py (v2), two command-line programs over *)
(* one PostgreSQL table `expenses`.                                        *)
(*                                                                         *)
(* Every text (a command-line argument, a CSV cell) is a sequence of       *)
(* one-character strings, so that parsing and formatting are computed      *)
(* character by character.  An optional value (Python's None, SQL's NULL)  *)
(* is a sequence of length 0 or 1: None == <<>>, Some(x) == <<x>>.         *)
(* An amount stored in a NUMERIC(p,2) column is an integer number of       *)
(* hundredths.  An instant is [s |-> seconds since the epoch, us |->       *)
(* microseconds]; an aware datetime is the instant with its UTC offset.    *)
(***************************************************************************)
EXTENDS Integers, Sequences, FiniteSets, TLC

VARIABLES
    impl,      \* which program is installed: 1 = expense_tracker.py, 2 = expense_tracker2.py
    tz,        \* the session's time zone, as its UTC offset in seconds
    expenses,  \* the rows of table expenses, in the order they were inserted
    nextId,    \* the next value of the id column's sequence
    disk,      \* the exported CSV file, None when there is none
    last       \* the command that is running or has just run, and what it gave

vars == <<impl, tz, expenses, nextId, disk, last>>

----------------------------------------------------------------------------
(* Optional values *)

None == <<>>

Some(x) == <<x>>

IsNone(o) == o = <<>>

Val(o) == o[1]

----------------------------------------------------------------------------
(* Characters and numerals *)

DigitChars == <<"0", "1", "2", "3", "4", "5", "6", "7", "8", "9">>

IsDigit(c) == \E i \in 1..10 : DigitChars[i] = c

DigitVal(c) == (CHOOSE i \in 1..10 : DigitChars[i] = c) - 1

AllDigits(t) == \A i \in 1..Len(t) : IsDigit(t[i])

RECURSIVE NatOf(_)
\* int() of a numeral: the value of a sequence of digits
NatOf(t) ==
    IF t = <<>> THEN 0
    ELSE 10 * NatOf(SubSeq(t, 1, Len(t) - 1)) + DigitVal(t[Len(t)])

RECURSIVE Pow10(_)
Pow10(n) == IF n = 0 THEN 1 ELSE 10 * Pow10(n - 1)

RECURSIVE NatText(_)
\* str() of a natural number
NatText(n) ==
    IF n < 10 THEN <<DigitChars[n + 1]>>
    ELSE NatText(n \div 10) \o <<DigitChars[(n % 10) + 1]>>

RECURSIVE Pad(_, _)
\* a numeral zero-filled on the left to width w ("%02d", "%04d", "%06d")
Pad(t, w) == IF Len(t) >= w THEN t ELSE Pad(<<"0">> \o t, w)

RECURSIVE Strip(_)
\* str.strip(): leading and trailing blanks removed
Strip(t) ==
    IF t = <<>> THEN t
    ELSE IF t[1] = " " THEN Strip(Tail(t))
    ELSE IF t[Len(t)] = " " THEN Strip(SubSeq(t, 1, Len(t) - 1))
    ELSE t

----------------------------------------------------------------------------
(* The proleptic Gregorian calendar of datetime and of PostgreSQL *)

IsLeap(y) == (y % 4 = 0) /\ ((y % 100 # 0) \/ (y % 400 = 0))

DaysInMonth(y, m) ==
    IF m = 2 THEN (IF IsLeap(y) THEN 29 ELSE 28)
    ELSE IF m \in {4, 6, 9, 11} THEN 30 ELSE 31

\* days from 1970-01-01 to the civil date y-m-d
DaysFromCivil(y, m, d) ==
    LET yy  == IF m <= 2 THEN y - 1 ELSE y
        era == yy \div 400
        yoe == yy - era * 400
        mp  == IF m > 2 THEN m - 3 ELSE m + 9
        doy == (153 * mp + 2) \div 5 + d - 1
        doe == yoe * 365 + yoe \div 4 - yoe \div 100 + doy
    IN  era * 146097 + doe - 719468

\* the civil date of the day z days after 1970-01-01
CivilFromDays(z) ==
    LET zz  == z + 719468
        era == zz \div 146097
        doe == zz - era * 146097
        yoe == (doe - doe \div 1460 + doe \div 36524 - doe \div 146096) \div 365
        doy == doe - (365 * yoe + yoe \div 4 - yoe \div 100)
        mp  == (5 * doy + 2) \div 153
        d   == doy - (153 * mp + 2) \div 5 + 1
        m   == IF mp < 10 THEN mp + 3 ELSE mp - 9
        y   == yoe + era * 400 + (IF m <= 2 THEN 1 ELSE 0)
    IN  [Y |-> y, m |-> m, d |-> d]

\* an instant: seconds since the epoch and microseconds within the second
Instant(s, us) == [s |-> s, us |-> us]

InstLE(a, b) == a.s < b.s \/ (a.s = b.s /\ a.us <= b.us)

InstLT(a, b) == a.s < b.s \/ (a.s = b.s /\ a.us < b.us)

\* an aware datetime: the instant and the UTC offset (seconds) it is shown in
Aware(inst, off) == [inst |-> inst, off |-> off]

\* the civil fields of the civil date c, sod seconds into the day
CivilTime(c, sod, us) ==
    [Y |-> c.Y, m |-> c.m, d |-> c.d,
     H |-> sod \div 3600, M |-> (sod % 3600) \div 60, S |-> sod % 60,
     us |-> us]

\* the civil fields a datetime with offset `off` shows for instant `inst`
Fields(inst, off) ==
    CivilTime(CivilFromDays((inst.s + off) \div 86400), (inst.s + off) % 86400, inst.us)

\* the instant of civil fields read at UTC offset `off`
InstantOf(f, off) ==
    Instant(DaysFromCivil(f.Y, f.m, f.d) * 86400 + f.H * 3600 + f.M * 60 + f.S - off,
            f.us)

\* datetime's range: years 1..9999, and a day the month has
ValidFields(f) ==
    /\ f.Y \in 1..9999 /\ f.m \in 1..12
    /\ f.d >= 1 /\ f.d <= DaysInMonth(f.Y, f.m)
    /\ f.H \in 0..23 /\ f.M \in 0..59 /\ f.S \in 0..59

----------------------------------------------------------------------------
(* datetime.strptime, float and datetime.fromtimestamp, as parse_date uses  *)
(* them.  A format is the sequence of its directives and literal characters.*)

FmtIsoTz    == <<"%Y", "-", "%m", "-", "%d", "T", "%H", ":", "%M", ":", "%S", "%z">>

FmtIsoNaive == <<"%Y", "-", "%m", "-", "%d", "T", "%H", ":", "%M", ":", "%S">>

FmtSpace    == <<"%Y", "-", "%m", "-", "%d", " ", "%H", ":", "%M", ":", "%S">>

FmtDate     == <<"%Y", "-", "%m", "-", "%d">>

\* the formats of parse_date's loop, in its order
DateFormats == <<FmtIsoTz, FmtIsoNaive, FmtSpace, FmtDate>>

IsNumDirective(it) == it \in {"%Y", "%m", "%d", "%H", "%M", "%S", "%f"}

\* the text w is one the directive's regular expression accepts:
\*   %Y \d\d\d\d           %m 1[0-2]|0[1-9]|[1-9]   %d 3[0-1]|[1-2]\d|0[1-9]|[1-9]| [1-9]
\*   %H 2[0-3]|[0-1]\d|\d  %M [0-5]\d|\d            %S 6[0-1]|[0-5]\d|\d
\*   %f [0-9]{1,6}
DirOk(it, w) ==
    IF it = "%d" /\ Len(w) = 2 /\ w[1] = " "
    THEN IsDigit(w[2]) /\ w[2] # "0"
    ELSE /\ w # <<>> /\ AllDigits(w)
         /\ CASE it = "%Y" -> Len(w) = 4
              [] it = "%m" -> (Len(w) = 2 /\ NatOf(w) \in 1..12) \/ (Len(w) = 1 /\ NatOf(w) \in 1..9)
              [] it = "%d" -> (Len(w) = 2 /\ NatOf(w) \in 1..31) \/ (Len(w) = 1 /\ NatOf(w) \in 1..9)
              [] it = "%H" -> (Len(w) = 2 /\ NatOf(w) \in 0..23) \/ Len(w) = 1
              [] it = "%M" -> (Len(w) = 2 /\ NatOf(w) \in 0..59) \/ Len(w) = 1
              [] it = "%S" -> (Len(w) = 2 /\ NatOf(w) \in 0..61) \/ Len(w) = 1
              [] it = "%f" -> Len(w) <= 6
              [] OTHER -> FALSE

DirWidth(it) == IF it = "%Y" THEN 4 ELSE IF it = "%f" THEN 6 ELSE 2

\* the number a directive's text stands for; %f is zero-filled on the right
DirValue(it, w) ==
    IF it = "%f" THEN NatOf(SubSeq(w \o <<"0", "0", "0", "0", "0">>, 1, 6))
    ELSE IF w[1] = " " THEN NatOf(Tail(w)) ELSE NatOf(w)

\* the field of the parsed time a directive sets
DirKey(it) ==
    CASE it = "%Y" -> "Y" [] it = "%m" -> "m" [] it = "%d" -> "d"
      [] it = "%H" -> "H" [] it = "%M" -> "M" [] it = "%S" -> "S" [] it = "%f" -> "us"

\* %z: [+-]\d\d:?[0-5]\d(:?[0-5]\d)?|Z   (fractional offset seconds are not modelled)
\* the UTC offsets in seconds that the text w denotes: one or none
ZOffsets(w) ==
    IF w = <<"Z">> THEN {0}
    ELSE IF Len(w) < 5 \/ ~(w[1] \in {"+", "-"}) THEN {}
    ELSE LET sign == IF w[1] = "-" THEN -1 ELSE 1
             hh   == SubSeq(w, 2, 3)
             r1   == SubSeq(w, 4, Len(w))
             r2   == IF r1[1] = ":" THEN Tail(r1) ELSE r1
             mm   == SubSeq(r2, 1, 2)
             r3   == SubSeq(r2, 3, Len(r2))
             r4   == IF r3 # <<>> /\ r3[1] = ":" THEN Tail(r3) ELSE r3
         IN  IF /\ AllDigits(hh) /\ Len(r2) >= 2 /\ AllDigits(mm) /\ NatOf(mm) \in 0..59
                /\ \/ r3 = <<>>
                   \/ Len(r4) = 2 /\ AllDigits(r4) /\ NatOf(r4) \in 0..59
             THEN {sign * (NatOf(hh) * 3600 + NatOf(mm) * 60 + (IF r3 = <<>> THEN 0 ELSE NatOf(r4)))}
             ELSE {}

\* re.IGNORECASE: a literal letter of the format matches either case
LitEq(c, lit) == c = lit \/ (lit = "T" /\ c = "t")

Min(a, b) == IF a < b THEN a ELSE b

\* the time strptime starts from: 1900-01-01 00:00:00, no zone
StrptimeDefaults ==
    [Y |-> 1900, m |-> 1, d |-> 1, H |-> 0, M |-> 0, S |-> 0, us |-> 0, off |-> None]

RECURSIVE Match(_, _, _)
\* the parses of the whole of text t by format fmt ("unconverted data remains" otherwise)
Match(fmt, t, acc) ==
    IF fmt = <<>> THEN (IF t = <<>> THEN {acc} ELSE {})
    ELSE LET it   == Head(fmt)
             rest(w) == SubSeq(t, w + 1, Len(t))
         IN  IF IsNumDirective(it)
             THEN UNION { Match(Tail(fmt), rest(w), [acc EXCEPT ![DirKey(it)] = DirValue(it, SubSeq(t, 1, w))])
                          : w \in {x \in 1..Min(Len(t), DirWidth(it)) : DirOk(it, SubSeq(t, 1, x))} }
             ELSE IF it = "%z"
             THEN UNION { Match(Tail(fmt), rest(w), [acc EXCEPT !.off = Some(CHOOSE o \in ZOffsets(SubSeq(t, 1, w)) : TRUE)])
                          : w \in {x \in 1..Len(t) : ZOffsets(SubSeq(t, 1, x)) # {}} }
             ELSE IF it = " "
             THEN UNION { Match(Tail(fmt), rest(w), acc)
                          : w \in {x \in 1..Len(t) : \A i \in 1..x : t[i] = " "} }
             ELSE IF t # <<>> /\ LitEq(t[1], it) THEN Match(Tail(fmt), Tail(t), acc)
             ELSE {}

\* the parse of a text: None when there is none, else the one there is
AnyOf(S) == IF S = {} THEN None ELSE Some(CHOOSE x \in S : TRUE)

\* datetime.strptime(t, fmt): None when it raises ValueError, else the parsed
\* datetime: its civil fields and its offset (None for a naive one)
strptime(t, fmt) ==
    AnyOf({r \in Match(fmt, t, StrptimeDefaults) :
              /\ ValidFields(r)
              /\ (IsNone(r.off) \/ (Val(r.off) > -86400 /\ Val(r.off) < 86400))})

RECURSIVE DropZeros(_)
DropZeros(t) == IF Len(t) > 1 /\ t[1] = "0" THEN DropZeros(Tail(t)) ELSE t

RECURSIVE DigitsLE(_, _)
\* a <= b for two numerals of the same length
DigitsLE(a, b) ==
    IF a = <<>> THEN TRUE
    ELSE IF DigitVal(a[1]) # DigitVal(b[1]) THEN DigitVal(a[1]) < DigitVal(b[1])
    ELSE DigitsLE(Tail(a), Tail(b))

\* the value of numeral a is at most that of numeral b
NumeralLE(a, b) ==
    LET x == DropZeros(a)
        y == DropZeros(b)
    IN  Len(x) < Len(y) \/ (Len(x) = Len(y) /\ DigitsLE(x, y))

\* the last second of year 9999, and the seconds from year 1 to the epoch
MaxTimestamp == <<"2", "5", "3", "4", "0", "2", "3", "0", "0", "7", "9", "9">>

MinTimestamp == <<"6", "2", "1", "3", "5", "5", "9", "6", "8", "0", "0">>

\* float(t) for the numerals [sign] digits [. digits] and for nan / inf
\* (exponents and underscores are outside the modelled texts):
\* None for ValueError, else [neg, int, frac, special]
float(t) ==
    LET u    == Strip(t)
        neg  == u # <<>> /\ u[1] = "-"
        body == IF u # <<>> /\ u[1] \in {"+", "-"} THEN Tail(u) ELSE u
        dots == {i \in 1..Len(body) : body[i] = "."}
        ip   == IF dots = {} THEN body ELSE SubSeq(body, 1, (CHOOSE i \in dots : TRUE) - 1)
        fp   == IF dots = {} THEN <<>> ELSE SubSeq(body, (CHOOSE i \in dots : TRUE) + 1, Len(body))
    IN  IF body \in {<<"n", "a", "n">>, <<"i", "n", "f">>}
        THEN Some([neg |-> neg, int |-> <<>>, frac |-> <<>>, special |-> TRUE])
        ELSE IF /\ Cardinality(dots) <= 1 /\ AllDigits(ip) /\ AllDigits(fp)
                /\ (ip # <<>> \/ fp # <<>>)
        THEN Some([neg |-> neg, int |-> ip, frac |-> fp, special |-> FALSE])
        ELSE None

\* datetime.fromtimestamp(x, tz=timezone.utc): None when it raises (nan, inf, a
\* year outside 1..9999), else the aware datetime at offset 0.  A fraction of up
\* to six digits is exact in microseconds.
fromtimestamp(x) ==
    LET us6 == NatOf(SubSeq(x.frac \o <<"0", "0", "0", "0", "0", "0">>, 1, 6))
        ok  == /\ ~x.special
               /\ IF x.neg THEN NumeralLE(x.int \o <<"0">>, MinTimestamp \o <<"0">>)
                           ELSE NumeralLE(x.int \o <<"0">>, MaxTimestamp \o <<"0">>)
    IN  IF ~ok THEN None
        ELSE IF ~x.neg THEN Some(Aware(Instant(NatOf(x.int), us6), 0))
        ELSE IF us6 = 0 THEN Some(Aware(Instant(0 - NatOf(x.int), 0), 0))
        ELSE Some(Aware(Instant(0 - NatOf(x.int) - 1, 1000000 - us6), 0))

----------------------------------------------------------------------------
(* The parser: parse_date and parse_amount *)

\* what a Python call does: return a value, or raise (err names the exception)
Ret(v) == [err |-> "", val |-> v]

Raise(e) == [err |-> e, val |-> None]

Raised(r) == r.err # ""

\* a parser that reads a naive text in a zone one hour east of UTC: what the
\* parse_date claim must tell from AwareOf
AwareOfLocal(r) ==
    IF IsNone(r.off) THEN Aware(InstantOf(r, 3600), 3600)
    ELSE Aware(InstantOf(r, Val(r.off)), Val(r.off))

\* the aware datetime of a strptime result; a naive one is given tzinfo UTC
\* (src/expense_tracker.py:222-224)
AwareOf(r) ==
    IF IsNone(r.off) THEN Aware(InstantOf(r, 0), 0)
    ELSE Aware(InstantOf(r, Val(r.off)), Val(r.off))

\* `except Exception: raise ValueError` around a call that gave o
OrValueError(o) == IF IsNone(o) THEN Raise("ValueError") ELSE Ret(o)

\* datetime.fromtimestamp of what float(s) gave
FromFloat(x) == IF IsNone(x) THEN Raise("ValueError") ELSE OrValueError(fromtimestamp(Val(x)))

\* the fallback of parse_date: float(s), then datetime.fromtimestamp
ParseTimestamp(s) == FromFloat(float(s))

RECURSIVE TryFormats(_, _)
RECURSIVE Tried(_, _, _)
\* one turn of parse_date's loop, r what strptime made of s with the i-th
\* format: return the datetime, or go on to the next format
Tried(r, s, i) ==
    IF IsNone(r) THEN TryFormats(s, i + 1) ELSE Ret(Some(AwareOf(Val(r))))

\* the loop of parse_date over the formats from the i-th on
TryFormats(s, i) ==
    IF i > Len(DateFormats) THEN ParseTimestamp(s)
    ELSE Tried(strptime(s, DateFormats[i]), s, i)

\* parse_date(s) for s a text or None: Ret(None), Ret(Some(datetime)) or Raise
parse_date(s) ==
    IF IsNone(s) \/ Val(s) = <<>> THEN Ret(None)
    ELSE TryFormats(Val(s), 1)

\* Decimal(t) for the numerals [sign] digits [. digits] (exponents, NaN, Infinity
\* and underscores are outside the modelled texts): None for InvalidOperation,
\* else the decimal [neg, int, frac], its digits kept as written
Decimal(t) ==
    LET u    == Strip(t)
        neg  == u # <<>> /\ u[1] = "-"
        body == IF u # <<>> /\ u[1] \in {"+", "-"} THEN Tail(u) ELSE u
        dots == {i \in 1..Len(body) : body[i] = "."}
        ip   == IF dots = {} THEN body ELSE SubSeq(body, 1, (CHOOSE i \in dots : TRUE) - 1)
        fp   == IF dots = {} THEN <<>> ELSE SubSeq(body, (CHOOSE i \in dots : TRUE) + 1, Len(body))
    IN  IF /\ Cardinality(dots) <= 1 /\ AllDigits(ip) /\ AllDigits(fp)
           /\ (ip # <<>> \/ fp # <<>>)
        THEN Some([neg |-> neg, int |-> ip, frac |-> fp])
        ELSE None

\* a decimal is zero: every digit of it is
DecIsZero(d) == \A i \in 1..Len(d.int \o d.frac) : (d.int \o d.frac)[i] = "0"

\* val <= 0 for a decimal
DecNonPositive(d) == d.neg \/ DecIsZero(d)

\* parse_amount of src/expense_tracker.py: any decimal is accepted
parse_amount(t) ==
    LET d == Decimal(t)
    IN  IF IsNone(d) THEN Raise("ArgumentTypeError") ELSE Ret(d)

\* parse_amount of src/expense_tracker2.py: a decimal that is positive
parse_amount2(t) ==
    LET d == Decimal(t)
    IN  IF IsNone(d) THEN Raise("ArgumentTypeError")
        ELSE IF DecNonPositive(Val(d)) THEN Raise("ArgumentTypeError")
        ELSE Ret(d)

----------------------------------------------------------------------------
(* Formatting: str of a stored amount, datetime.isoformat and str(datetime) *)

\* str(Decimal) of a NUMERIC(p,2) value of c hundredths, as psycopg2 returns it
AmountText(c) ==
    LET a == IF c < 0 THEN 0 - c ELSE c
    IN  (IF c < 0 THEN <<"-">> ELSE <<>>)
        \o NatText(a \div 100) \o <<".">> \o Pad(NatText(a % 100), 2)

\* the UTC offset of isoformat: +HH:MM, and :SS when it has seconds
OffsetText(off) ==
    LET a == IF off < 0 THEN 0 - off ELSE off
    IN  (IF off < 0 THEN <<"-">> ELSE <<"+">>)
        \o Pad(NatText(a \div 3600), 2) \o <<":">> \o Pad(NatText((a % 3600) \div 60), 2)
        \o (IF a % 60 = 0 THEN <<>> ELSE <<":">> \o Pad(NatText(a % 60), 2))

\* the date and time of isoformat for civil fields f: YYYY-MM-DD, sep,
\* HH:MM:SS, and .ffffff when the microseconds are not 0
IsoFields(f, sep) ==
    Pad(NatText(f.Y), 4) \o <<"-">> \o Pad(NatText(f.m), 2) \o <<"-">> \o Pad(NatText(f.d), 2)
    \o <<sep>>
    \o Pad(NatText(f.H), 2) \o <<":">> \o Pad(NatText(f.M), 2) \o <<":">> \o Pad(NatText(f.S), 2)
    \o (IF f.us = 0 THEN <<>> ELSE <<".">> \o Pad(NatText(f.us), 6))

\* datetime.isoformat(sep) of an aware datetime: the microseconds only when not 0
IsoText(dt, sep) == IsoFields(Fields(dt.inst, dt.off), sep) \o OffsetText(dt.off)

isoformat(dt) == IsoText(dt, "T")

----------------------------------------------------------------------------
(* The table `expenses`: its two schemas and PostgreSQL's part of an INSERT *)

\* NUMERIC(12,2), VARCHAR(120) of src/expense_tracker.py
NumericPrecision1 == 12

CategoryMax1 == 120

\* NUMERIC(10,2), VARCHAR(50), VARCHAR(200) of src/expense_tracker2.py
NumericPrecision2 == 10

CategoryMax2 == 50

DescriptionMax2 == 200

\* the table a program creates (init_db): column sizes, None for TEXT, and
\* whether it has CHECK (amount > 0)
Schema(v) ==
    IF v = 1
    THEN [precision |-> NumericPrecision1, categoryMax |-> Some(CategoryMax1),
          descriptionMax |-> None, checkPositive |-> FALSE]
    ELSE [precision |-> NumericPrecision2, categoryMax |-> Some(CategoryMax2),
          descriptionMax |-> Some(DescriptionMax2), checkPositive |-> TRUE]

\* a decimal as NUMERIC(p,2): rounded half away from zero to hundredths
ToCents(d) ==
    LET f3 == SubSeq(d.frac \o <<"0", "0", "0">>, 1, 3)
        c  == NatOf(d.int) * 100 + NatOf(SubSeq(f3, 1, 2))
                 + (IF DigitVal(f3[3]) >= 5 THEN 1 ELSE 0)
    IN  IF d.neg THEN 0 - c ELSE c

\* "numeric field overflow": more integer digits than precision - 2
NumericOverflow(d, precision) == Len(DropZeros(d.int)) > precision - 2

\* a text as VARCHAR(n): None for "value too long", else the stored text
\* (an excess of blanks only is cut off); max = None is TEXT
ToVarchar(t, max) ==
    IF IsNone(max) \/ Len(t) <= Val(max) THEN Some(t)
    ELSE IF \A i \in (Val(max) + 1)..Len(t) : t[i] = " " THEN Some(SubSeq(t, 1, Val(max)))
    ELSE None

\* an INSERT that numbers the new row by the size of the table, not by the
\* sequence: what the append-only claim must tell from PgInsert
PgInsertCounted(sch, rows, seq, amount, category, description, created_at, now) ==
    LET cat  == IF IsNone(category) THEN None ELSE ToVarchar(Val(category), sch.categoryMax)
        desc == IF IsNone(description) THEN Some(None)
                ELSE LET v == ToVarchar(Val(description), sch.descriptionMax)
                     IN  IF IsNone(v) THEN None ELSE Some(v)
        typeError == \/ NumericOverflow(amount, sch.precision)
                     \/ (~IsNone(category) /\ IsNone(cat))
                     \/ IsNone(desc)
        row  == [id |-> Len(rows) + 1, amount |-> ToCents(amount), category |-> Val(cat),
                 description |-> Val(desc),
                 created_at |-> IF IsNone(created_at) THEN now ELSE Val(created_at)]
    IN  IF typeError THEN [err |-> "DataError", rows |-> rows, seq |-> seq]
        ELSE IF IsNone(category)
        THEN [err |-> "NotNullViolation", rows |-> rows, seq |-> seq + 1]
        ELSE IF sch.checkPositive /\ ToCents(amount) <= 0
        THEN [err |-> "CheckViolation", rows |-> rows, seq |-> seq + 1]
        ELSE [err |-> "", rows |-> Append(rows, row), seq |-> seq + 1]

\* INSERT INTO expenses (amount, category, description[, created_at]) RETURNING id
\* on table `rows` with sequence value `seq`; created_at = None takes DEFAULT now().
\* A value the column types refuse fails before the row is formed; a NOT NULL or
\* CHECK violation fails after nextval, so that id is never used again.
PgInsert(sch, rows, seq, amount, category, description, created_at, now) ==
    LET cat  == IF IsNone(category) THEN None ELSE ToVarchar(Val(category), sch.categoryMax)
        desc == IF IsNone(description) THEN Some(None)
                ELSE LET v == ToVarchar(Val(description), sch.descriptionMax)
                     IN  IF IsNone(v) THEN None ELSE Some(v)
        typeError == \/ NumericOverflow(amount, sch.precision)
                     \/ (~IsNone(category) /\ IsNone(cat))
                     \/ IsNone(desc)
        row  == [id |-> seq, amount |-> ToCents(amount), category |-> Val(cat),
                 description |-> Val(desc),
                 created_at |-> IF IsNone(created_at) THEN now ELSE Val(created_at)]
    IN  IF typeError THEN [err |-> "DataError", rows |-> rows, seq |-> seq]
        ELSE IF IsNone(category)
        THEN [err |-> "NotNullViolation", rows |-> rows, seq |-> seq + 1]
        ELSE IF sch.checkPositive /\ ToCents(amount) <= 0
        THEN [err |-> "CheckViolation", rows |-> rows, seq |-> seq + 1]
        ELSE [err |-> "", rows |-> Append(rows, row), seq |-> seq + 1]

\* a row as psycopg2 hands it over: created_at an aware datetime in the
\* session's time zone
RowOut(r, zone) == [r EXCEPT !.created_at = Aware(r.created_at, zone)]

\* ORDER BY created_at DESC
NewerFirst(a, b) == InstLT(b.created_at, a.created_at)

\* ORDER BY period DESC
LaterPeriodFirst(a, b) == InstLT(b.period.inst, a.period.inst)

\* ORDER BY total DESC
LargerTotalFirst(a, b) == a.total > b.total

\* ORDER BY MIN(created_at) ASC
OlderFirst(a, b) == InstLT(a.first, b.first)

\* the ORDER BY clause `by` puts row a ahead of row b
Ahead(by, a, b) ==
    CASE by = "created_at DESC" -> NewerFirst(a, b)
      [] by = "period DESC" -> LaterPeriodFirst(a, b)
      [] by = "total DESC" -> LargerTotalFirst(a, b)
      [] by = "MIN(created_at) ASC" -> OlderFirst(a, b)

\* the orders a SELECT ... ORDER BY may return the rows of set S in: every
\* arrangement in which no row comes after one the clause puts it ahead of
\* (rows that tie come in any order)
Orderings(S, by) ==
    {f \in [1..Cardinality(S) -> S] :
        /\ \A i, j \in 1..Cardinality(S) : i # j => f[i] # f[j]
        /\ \A i, j \in 1..Cardinality(S) : i < j => ~Ahead(by, f[j], f[i])}

\* LIMIT n
Limit(rows, n) == SubSeq(rows, 1, Min(n, Len(rows)))

\* Python truthiness of an optional text: neither None nor ''
Truthy(o) == ~IsNone(o) /\ Val(o) # <<>>

----------------------------------------------------------------------------
(* src/expense_tracker.py: the store operations *)

\* add_expense: one INSERT in one transaction; a failure rolls it back and raises
add_expense(rows, seq, amount, category, description, created_at, now) ==
    PgInsert(Schema(1), rows, seq, amount, category, description, created_at, now)

\* the WHERE clauses query_expenses and category_report build from since / until
InRange(r, since, until) ==
    /\ IsNone(since) \/ InstLE(Val(since).inst, r.created_at)
    /\ IsNone(until) \/ InstLE(r.created_at, Val(until).inst)

\* the rows of a table as a set
RowSet(rows) == {rows[i] : i \in 1..Len(rows)}

\* `parse_date(x) if x else None`: the date a command is given as a text
DateArg(arg) == IF Truthy(arg) THEN parse_date(arg) ELSE Ret(None)

\* a SELECT that applies LIMIT before the filters: what the query claim must
\* tell from query_expenses
SelectLimitFirst(rows, zone, limit, ps, pu, category) ==
    LET keep(r) == /\ InRange(r, ps.val, pu.val)
                   /\ (Truthy(category) => r.category = Val(category))
    IN  IF Raised(ps) \/ Raised(pu) THEN {}
        ELSE {LET top == Limit(o, limit)
                  at  == {i \in 1..Len(top) : keep(top[i])}
                  nth(k) == CHOOSE i \in at : Cardinality({j \in at : j <= i}) = k
              IN  [k \in 1..Cardinality(at) |-> RowOut(top[nth(k)], zone)] :
                 o \in Orderings(RowSet(rows), "created_at DESC")}

query_expenses_limit_first(rows, zone, limit, since, until, category) ==
    SelectLimitFirst(rows, zone, limit, DateArg(since), DateArg(until), category)

\* the SELECT of query_expenses, ps and pu what parse_date made of since and
\* until: WHERE ... ORDER BY created_at DESC LIMIT
Select(rows, zone, limit, ps, pu, category) ==
    LET matching == {r \in RowSet(rows) :
                        /\ InRange(r, ps.val, pu.val)
                        /\ (Truthy(category) => r.category = Val(category))}
    IN  IF Raised(ps) \/ Raised(pu) THEN {}
        ELSE {[i \in 1..Min(limit, Len(o)) |-> RowOut(o[i], zone)] :
                 o \in Orderings(matching, "created_at DESC")}

\* query_expenses(limit, since, until, category): the results it may return,
\* or {} when parse_date raises on since or until
query_expenses(rows, zone, limit, since, until, category) ==
    Select(rows, zone, limit, DateArg(since), DateArg(until), category)

\* the Monday on or before a day (1970-01-01 was a Thursday)
MondayOf(day) == day - ((day + 3) % 7)

\* the day the month, or the week, of civil fields f begins
TruncDay(period, f) ==
    IF period = "month" THEN DaysFromCivil(f.Y, f.m, 1)
    ELSE MondayOf(DaysFromCivil(f.Y, f.m, f.d))

\* date_trunc(period, created_at) in the session's time zone: the instant the
\* month, or the week (Monday), of the instant begins
date_trunc(period, inst, zone) ==
    Instant(TruncDay(period, Fields(inst, zone)) * 86400 - zone, 0)

RECURSIVE SumAmounts(_)
\* sum(amount) over a set of rows
SumAmounts(S) ==
    IF S = {} THEN 0
    ELSE LET r == CHOOSE x \in S : TRUE IN r.amount + SumAmounts(S \ {r})

\* summary_by_period(period, limit): the results it may return, {} when it
\* raises ValueError
summary_by_period(rows, zone, period, limit) ==
    LET keys    == {date_trunc(period, r.created_at, zone) : r \in RowSet(rows)}
        group(k) == {r \in RowSet(rows) : date_trunc(period, r.created_at, zone) = k}
        buckets == {[period |-> Aware(k, zone), count |-> Cardinality(group(k)),
                     total |-> SumAmounts(group(k))] : k \in keys}
    IN  IF period \notin {"month", "week"} THEN {}
        ELSE {Limit(o, limit) :
                 o \in Orderings(buckets, "period DESC")}

\* a GROUP BY that adds up the distinct amounts of a category only: what the
\* totals claim must tell from category_report
GroupDistinct(rows, limit, ps, pu) ==
    LET matching == {r \in RowSet(rows) : InRange(r, ps.val, pu.val)}
        group(c) == {r \in matching : r.category = c}
        groups == {[category |-> c, cnt |-> Cardinality(group(c)),
                    total |-> SumAmounts({[amount |-> r.amount] : r \in group(c)})] :
                      c \in {r.category : r \in matching}}
    IN  IF Raised(ps) \/ Raised(pu) THEN {}
        ELSE {Limit(o, limit) : o \in Orderings(groups, "total DESC")}

category_report_distinct(rows, limit, since, until) ==
    GroupDistinct(rows, limit, DateArg(since), DateArg(until))

\* the SELECT of category_report, ps and pu what parse_date made of since and
\* until: WHERE ... GROUP BY category ORDER BY total DESC LIMIT
GroupByCategory(rows, limit, ps, pu) ==
    LET matching == {r \in RowSet(rows) : InRange(r, ps.val, pu.val)}
        group(c) == {r \in matching : r.category = c}
        groups == {[category |-> c, cnt |-> Cardinality(group(c)),
                    total |-> SumAmounts(group(c))] : c \in {r.category : r \in matching}}
    IN  IF Raised(ps) \/ Raised(pu) THEN {}
        ELSE {Limit(o, limit) : o \in Orderings(groups, "total DESC")}

\* category_report(since, until, limit): the results it may return, or {} when
\* parse_date raises on since or until
category_report(rows, limit, since, until) ==
    GroupByCategory(rows, limit, DateArg(since), DateArg(until))

----------------------------------------------------------------------------
(* src/expense_tracker.py: CSV export and import.  A file is the sequence of *)
(* its lines, a line the sequence of its cells, as the csv module reads and  *)
(* writes them.                                                              *)

ColId == <<"i", "d">>

ColAmount == <<"a", "m", "o", "u", "n", "t">>

ColCategory == <<"c", "a", "t", "e", "g", "o", "r", "y">>

ColDescription == <<"d", "e", "s", "c", "r", "i", "p", "t", "i", "o", "n">>

ColCreatedAt == <<"c", "r", "e", "a", "t", "e", "d", "_", "a", "t">>

\* the header row export_to_csv writes
ExportHeader == <<ColId, ColAmount, ColCategory, ColDescription, ColCreatedAt>>

\* the line export_to_csv writes for a row: r.get('description', '') is None for
\* a NULL description, which csv.writer writes as the empty cell
ExportLine(r) ==
    <<NatText(r.id), AmountText(r.amount), r.category,
      IF IsNone(r.description) THEN <<>> ELSE Val(r.description),
      isoformat(r.created_at)>>

\* export_to_csv(rows, filepath): the file written
export_to_csv(rows) == <<ExportHeader>> \o [i \in 1..Len(rows) |-> ExportLine(rows[i])]

\* csv.DictReader's row: the cell under a column name.  [has |-> the name is a
\* field name, cell |-> the cell, None when the line is too short (restval)]
DictCell(fieldnames, line, key) ==
    LET at == {i \in 1..Len(fieldnames) : fieldnames[i] = key}
        i  == CHOOSE x \in at : \A y \in at : y <= x
    IN  IF at = {} THEN [has |-> FALSE, cell |-> None]
        ELSE [has |-> TRUE, cell |-> IF i <= Len(line) THEN Some(line[i]) ELSE None]

\* an add that stores the row even when parse_date refused its date, at the
\* clock's reading: what the import-prefix claim must tell from AddParsed
AddUnparsed(rows, seq, amount, category, description, created, now) ==
    add_expense(rows, seq, amount, category, description,
                IF Raised(created) \/ IsNone(created.val) THEN None
                ELSE Some(Val(created.val).inst),
                now)

\* add_expense with the date a command read, created what parse_date made of
\* it: a text parse_date refuses raises before the INSERT
AddParsed(rows, seq, amount, category, description, created, now) ==
    IF Raised(created) THEN [err |-> created.err, rows |-> rows, seq |-> seq]
    ELSE add_expense(rows, seq, amount, category, description,
                     IF IsNone(created.val) THEN None ELSE Some(Val(created.val).inst),
                     now)

\* the body of import_from_csv's try for one line; fieldnames = None reads the
\* line by position.  The table and sequence after it, and whether it raised.
ImportLine(fieldnames, line, rows, seq, now) ==
    LET hdr  == ~IsNone(fieldnames)
        cA   == DictCell(Val(fieldnames), line, ColAmount)
        cC   == DictCell(Val(fieldnames), line, ColCategory)
        cD   == DictCell(Val(fieldnames), line, ColDescription)
        cT   == DictCell(Val(fieldnames), line, ColCreatedAt)
        \* row['amount'], row[0]: KeyError, IndexError, or TypeError in Decimal(None)
        noAmount   == IF hdr THEN ~cA.has \/ IsNone(cA.cell) ELSE Len(line) < 1
        amountText == IF hdr THEN Val(cA.cell) ELSE line[1]
        \* row['category'], row[1]
        noCategory == IF hdr THEN ~cC.has ELSE Len(line) < 2
        category   == IF hdr THEN cC.cell ELSE Some(line[2])
        description == IF hdr THEN (IF cD.has THEN cD.cell ELSE Some(<<>>))
                       ELSE (IF Len(line) > 2 THEN Some(line[3]) ELSE Some(<<>>))
        dateText   == IF hdr THEN cT.cell
                      ELSE (IF Len(line) > 3 THEN Some(line[4]) ELSE None)
        same       == [err |-> "skipped", rows |-> rows, seq |-> seq]
    IN  IF noAmount THEN same
        ELSE IF IsNone(Decimal(amountText)) THEN same
        ELSE IF noCategory THEN same
        ELSE AddParsed(rows, seq, Val(Decimal(amountText)), category, description,
                       DateArg(dateText), now)

\* `imported += 1` after a line whose try body r did not raise
Counted(r, imported) ==
    [rows |-> r.rows, seq |-> r.seq,
     imported |-> IF r.err = "" THEN imported + 1 ELSE imported]

RECURSIVE ImportLines(_, _, _, _)
\* the loop of import_from_csv from state st = [rows, seq, imported]: a line
\* that raises is skipped, the others counted
ImportLines(fieldnames, lines, st, now) ==
    IF lines = <<>> THEN st
    ELSE ImportLines(fieldnames, Tail(lines),
                     Counted(ImportLine(fieldnames, Head(lines), st.rows, st.seq, now),
                             st.imported),
                     now)

\* import_from_csv(filepath, has_header): csv.DictReader takes the first line as
\* the field names; csv.reader yields every line
import_from_csv(file, has_header, rows, seq, now) ==
    IF has_header /\ file = <<>> THEN [rows |-> rows, seq |-> seq, imported |-> 0]
    ELSE ImportLines(IF has_header THEN Some(Head(file)) ELSE None,
                     IF has_header THEN Tail(file) ELSE file,
                     [rows |-> rows, seq |-> seq, imported |-> 0], now)

----------------------------------------------------------------------------
(* src/expense_tracker.py: the add command of main *)

\* `arg or input(...).strip()`
OrInput(arg, answer) == IF Truthy(arg) THEN Val(arg) ELSE Strip(answer)

\* the add branch of main for arguments a and prompt answers p.  argparse has
\* applied parse_amount to --amount; a missing one is prompted for.
main_add(a, p, rows, seq, now) ==
    LET amount   == parse_amount(IF IsNone(a.amount) THEN Strip(p.amount)
                                 ELSE Val(a.amount))
        category == OrInput(a.category, p.category)
        description == OrInput(a.description, p.description)
    IN  IF Raised(amount) THEN [err |-> amount.err, rows |-> rows, seq |-> seq]
        ELSE AddParsed(rows, seq, Val(amount.val), Some(category), Some(description),
                       DateArg(a.date), now)

----------------------------------------------------------------------------
(* src/expense_tracker2.py *)

\* the texts PostgreSQL reads as a timestamptz, of those the model holds: a date,
\* or a date and a time separated by T or a blank, with or without a fraction
\* and an offset.  Without an offset the session's time zone applies.
PgTimeTails ==
    {<<>>, <<"%z">>, <<".", "%f">>, <<".", "%f", "%z">>}

PgFormats ==
    {FmtDate} \cup {FmtIsoNaive \o x : x \in PgTimeTails} \cup {FmtSpace \o x : x \in PgTimeTails}

\* the instant of a parse o, read in the session's time zone when it has no
\* offset of its own
InZone(o, zone) ==
    IF IsNone(o) THEN None
    ELSE Some(InstantOf(Val(o), IF IsNone(Val(o).off) THEN zone ELSE Val(Val(o).off)))

\* the instant of text t as a timestamptz, None for "invalid input syntax"
pg_timestamptz(t, zone) ==
    InZone(AnyOf({r \in UNION {Match(f, t, StrptimeDefaults) : f \in PgFormats} :
                     ValidFields(r)}),
           zone)

\* the longest category and description add_expense lets a prompt give
PromptCategoryMax == 50

PromptDescriptionMax == 200

\* the INSERT of add_expense of v2, at the instant PostgreSQL read created_at
\* as: a text it cannot read fails the statement
InsertAt(rows, seq, amount, category, description, at, now) ==
    IF IsNone(at) THEN [err |-> "DataError", rows |-> rows, seq |-> seq]
    ELSE PgInsert(Schema(2), rows, seq, amount, category, description, at, now)

\* add_expense(amount, category, description, created_at) of v2: an argument
\* that is None is prompted for (p holds the answers) and only then validated;
\* created_at is a text PostgreSQL parses, or None for datetime.now().
add_expense2(rows, seq, zone, amount, category, description, created_at, p, now) ==
    LET amt   == IF IsNone(amount) THEN parse_amount2(p.amount) ELSE Ret(amount)
        badCategory == /\ IsNone(category)
                       /\ (Strip(p.category) = <<>> \/ Len(Strip(p.category)) > PromptCategoryMax)
        cat   == IF IsNone(category) THEN Strip(p.category) ELSE Val(category)
        desc  == IF IsNone(description)
                 THEN SubSeq(Strip(p.description), 1, Min(PromptDescriptionMax, Len(Strip(p.description))))
                 ELSE Val(description)
    IN  IF Raised(amt) THEN [err |-> amt.err, rows |-> rows, seq |-> seq]
        ELSE IF badCategory THEN [err |-> "ValueError", rows |-> rows, seq |-> seq]
        ELSE InsertAt(rows, seq, Val(amt.val), Some(cat), Some(desc),
                      IF IsNone(created_at) THEN Some(now)
                      ELSE pg_timestamptz(Val(created_at), zone),
                      now)

\* the limit query_expenses of v2 applies when none is given
DefaultLimit2 == 50

\* query_expenses() as the list and export commands of v2 call it: no filter,
\* ORDER BY created_at DESC LIMIT 50
query_expenses2(rows, zone) ==
    {[i \in 1..Min(DefaultLimit2, Len(o)) |-> RowOut(o[i], zone)] :
        o \in Orderings(RowSet(rows), "created_at DESC")}

\* the month and year of civil fields
MonthOf(f) == [mon |-> f.m, year |-> f.Y]

\* TO_CHAR(created_at, 'Mon-YYYY') in the session's time zone, as month and year
MonthLabel(inst, zone) == MonthOf(Fields(inst, zone))

\* the least created_at of a non-empty set of rows
MinCreated(S) == CHOOSE t \in {r.created_at : r \in S} : \A r \in S : InstLE(t, r.created_at)

\* the rows summary() of v2 prints: one per month, the oldest month first
summary2(rows, zone) ==
    LET keys     == {MonthLabel(r.created_at, zone) : r \in RowSet(rows)}
        group(k) == {r \in RowSet(rows) : MonthLabel(r.created_at, zone) = k}
        buckets  == {[month |-> k, count |-> Cardinality(group(k)),
                      total |-> SumAmounts(group(k)), first |-> MinCreated(group(k))] : k \in keys}
    IN  Orderings(buckets, "MIN(created_at) ASC")

\* the rows category_report() of v2 prints: ORDER BY total DESC, no limit
category_report2(rows) ==
    LET group(c) == {r \in RowSet(rows) : r.category = c}
        groups == {[category |-> c, count |-> Cardinality(group(c)),
                    total |-> SumAmounts(group(c))] : c \in {r.category : r \in RowSet(rows)}}
    IN  Orderings(groups, "total DESC")

\* the line csv.DictWriter writes for a row: str() of each value, '' for None
ExportLine2(r) ==
    <<NatText(r.id), AmountText(r.amount), r.category,
      IF IsNone(r.description) THEN <<>> ELSE Val(r.description),
      IsoText(r.created_at, " ")>>

\* export_csv(): the file written, None when there are no rows ("No data to export")
export_csv(rows) ==
    IF rows = <<>> THEN None
    ELSE Some(<<ExportHeader>> \o [i \in 1..Len(rows) |-> ExportLine2(rows[i])])

RECURSIVE ImportLines2(_, _, _, _, _, _, _)
RECURSIVE ImportNext2(_, _, _, _, _, _)
\* after add_expense gave r for the first of lines: an exception ends the
\* import, else the loop goes on
ImportNext2(r, fieldnames, lines, zone, p, now) ==
    IF r.err # "" THEN [err |-> r.err, rows |-> r.rows, seq |-> r.seq, left |-> Len(lines)]
    ELSE ImportLines2(fieldnames, Tail(lines), r.rows, r.seq, zone, p, now)

\* the loop of import_csv: the first line that raises ends the import
ImportLines2(fieldnames, lines, rows, seq, zone, p, now) ==
    IF lines = <<>> THEN [err |-> "", rows |-> rows, seq |-> seq, left |-> 0]
    ELSE LET line == Head(lines)
             cA == DictCell(fieldnames, line, ColAmount)
             cC == DictCell(fieldnames, line, ColCategory)
             cD == DictCell(fieldnames, line, ColDescription)
             cT == DictCell(fieldnames, line, ColCreatedAt)
             stop(e) == [err |-> e, rows |-> rows, seq |-> seq, left |-> Len(lines)]
         IN  IF ~cA.has THEN stop("KeyError")
             ELSE IF IsNone(cA.cell) THEN stop("TypeError")
             ELSE IF IsNone(Decimal(Val(cA.cell))) THEN stop("InvalidOperation")
             ELSE IF ~cC.has THEN stop("KeyError")
             ELSE ImportNext2(add_expense2(rows, seq, zone, Decimal(Val(cA.cell)), cC.cell,
                                           cD.cell, cT.cell, p, now),
                              fieldnames, lines, zone, p, now)

\* import_csv() on the file at its path (None: "File does not exist")
import_csv(file, rows, seq, zone, p, now) ==
    IF IsNone(file) \/ Val(file) = <<>>
    THEN [err |-> "", rows |-> rows, seq |-> seq, left |-> 0]
    ELSE ImportLines2(Head(Val(file)), Tail(Val(file)), rows, seq, zone, p, now)

----------------------------------------------------------------------------
(* The inputs of the model: the texts, lines, files and clock readings the  *)
(* operations are run on.                                                   *)

\* the most rows the table is let grow to, the most lines of data in an
\* imported file, and the largest LIMIT asked for
MaxRecords == 2

MaxLines == 2

MaxLimit == 2

\* the sequence value past which add and import are no longer run
MaxId == 3

Empty == <<>>

Food == <<"F", "o", "o", "d">>

Rent == <<"R", "e", "n", "t">>

Misc == <<"M", "i", "s", "c">>

Lunch == <<"l", "u", "n", "c", "h">>

\* a category one character longer than VARCHAR(120) holds
LongCategory == [i \in 1..(CategoryMax1 + 1) |-> "x"]

Noon1June == <<"2", "0", "2", "3", "-", "0", "6", "-", "0", "1", "T", "1", "2", ":", "0", "0", ":", "0", "0", "+", "0", "0", ":", "0", "0">>

\* 2023-05-31T20:00:00Z, written at offset +05:30
Night31May == <<"2", "0", "2", "3", "-", "0", "6", "-", "0", "1", "T", "0", "1", ":", "3", "0", ":", "0", "0", "+", "0", "5", ":", "3", "0">>

June1 == <<"2", "0", "2", "3", "-", "0", "6", "-", "0", "1">>

June10 == <<"2", "0", "2", "3", "-", "0", "6", "-", "1", "0", " ", "0", "0", ":", "0", "0", ":", "0", "0">>

Junk == <<"j", "u", "n", "k">>

\* the lines of data a CSV file is made of: amount, category, description, created_at
LineFood == <<<<"1", "0", ".", "0", "0">>, Food, Lunch, Noon1June>>

LineRent == <<<<"1", "0", ".", "0", "0">>, Rent, Empty, Night31May>>

LineNegative == <<<<"-", "5">>, Food, Empty, June1>>

LineNoCategory == <<<<"7", ".", "5">>, Empty, Lunch, Empty>>

LineBadAmount == <<<<"a", "b", "c">>, Food, Lunch, June1>>

LineBadDate == <<<<"3">>, Food, Empty, Junk>>

LineShort == <<<<"4">>, Misc>>

LineAmountOnly == <<<<"4">>>>

LineLongCategory == <<<<"2">>, LongCategory, Empty, Empty>>

Lines == {LineFood, LineRent, LineNegative, LineNoCategory, LineBadAmount,
          LineBadDate, LineShort, LineAmountOnly, LineLongCategory}

\* the header of a file written for import
ImportHeader == <<ColAmount, ColCategory, ColDescription, ColCreatedAt>>

\* the sequences over S of length n
SeqsOfLen(S, n) == [1..n -> S]

\* the files imported: up to max lines of data, with the header line or without
Files(max) ==
    UNION {{body, <<ImportHeader>> \o body} : body \in UNION {SeqsOfLen(Lines, n) : n \in 0..max}}

\* what the clock may read when a row takes DEFAULT now():
\* 2023-06-15T10:00:00.25Z and 2023-07-01T00:00:00Z
NowValues == {Instant(1686823200, 250000), Instant(1688169600, 0)}

\* the session time zones: UTC and +05:30
SessionZones == {0, 19800}

\* the add commands run: every four-cell line given as arguments (an empty cell
\* is an empty argument, and is prompted for), and one with nothing given
AddCommands ==
    {[a |-> [amount |-> Some(l[1]), category |-> Some(l[2]),
             description |-> Some(l[3]), date |-> Some(l[4])],
      p |-> [amount |-> Empty, category |-> Empty, description |-> Empty]]
        : l \in {x \in Lines : Len(x) = 4}}
    \cup {[a |-> [amount |-> None, category |-> None, description |-> None, date |-> None],
           p |-> [amount |-> <<" ", "4", " ">>, category |-> <<" ", "M", "i", "s", "c">>, description |-> Empty]]}

\* the answers given to the prompts of v2: amount, category, description
Prompts ==
    {[amount |-> <<" ", "4", " ">>, category |-> <<" ", "M", "i", "s", "c">>, description |-> Empty],
     [amount |-> <<"1", "0", ".", "0", "0">>, category |-> Food, description |-> Lunch],
     [amount |-> <<"1", "0", ".", "0", "0">>, category |-> Rent, description |-> Empty],
     [amount |-> <<"7", ".", "5">>, category |-> <<" ">>, description |-> Lunch],
     [amount |-> <<"-", "5">>, category |-> Food, description |-> Empty],
     [amount |-> <<"0", ".", "0", "0", "1">>, category |-> Food, description |-> Empty],
     [amount |-> <<"a", "b", "c">>, category |-> Food, description |-> Lunch]}

\* the answers given when import_csv of v2 comes to prompt
ImportPrompts == {[amount |-> <<"1">>, category |-> Misc, description |-> Empty]}

\* the filters of list, export and category-report
FilterDates == {None, Some(Empty), Some(June1), Some(June10)}

FilterCategories == {None, Some(Empty), Some(Food)}

Periods == {"month", "week", "year"}

\* the most connections one process is let open
MaxConns == 2

\* the calls of the store operations of program v, with their arguments; an add
\* is the command with what was typed, so that what main and add_expense raise
\* before the connection is made is part of the call
StoreCalls(v) ==
    IF v = 1
    THEN {[fn |-> "init_db", force |-> f] : f \in BOOLEAN}
         \cup {[fn |-> "add_expense", c |-> c, now |-> now] : c \in AddCommands, now \in NowValues}
         \cup {[fn |-> "query_expenses", since |-> d] : d \in {None, Some(June1), Some(Junk)}}
         \cup {[fn |-> "summary_by_period", period |-> k] : k \in Periods}
         \cup {[fn |-> "category_report", since |-> d] : d \in {None, Some(Junk)}}
    ELSE {[fn |-> "init_db", force |-> FALSE]}
         \cup {[fn |-> "add_expense", c |-> q, now |-> now] : q \in Prompts, now \in NowValues}
         \cup {[fn |-> "query_expenses"], [fn |-> "summary"], [fn |-> "category_report"]}

\* the texts parse_date is given: a date, a time and a zone from these parts, or
\* one of the other texts
DateParts ==
    {<<"2", "0", "2", "3", "-", "0", "6", "-", "0", "1">>,
     <<"2", "0", "2", "3", "-", "6", "-", "1">>,
     <<"2", "0", "2", "3", "-", "0", "2", "-", "3", "0">>,
     <<"2", "0", "2", "4", "-", "0", "2", "-", "2", "9">>}

TimeParts ==
    {Empty,
     <<"T", "1", "2", ":", "0", "0", ":", "0", "0">>,
     <<"t", "0", "1", ":", "0", "2", ":", "0", "3">>,
     <<" ", "1", "2", ":", "0", "0", ":", "0", "0">>,
     <<" ", " ", "1", ":", "2", ":", "3">>,
     <<"T", "2", "4", ":", "0", "0", ":", "0", "0">>,
     <<"T", "1", "2", ":", "0", "0", ":", "6", "1">>,
     <<"T", "1", "2", ":", "0", "0", ":", "0", "0", ".", "5">>}

ZoneParts ==
    {Empty,
     <<"Z">>,
     <<"z">>,
     <<"+", "0", "5", ":", "3", "0">>,
     <<"-", "0", "5", "3", "0">>,
     <<"+", "0", "0", ":", "0", "0">>,
     <<"+", "2", "4", ":", "0", "0">>,
     <<"+", "0", "5">>}

OtherDateTexts ==
    {Empty,
     <<"8", "6", "4", "0", "0">>,
     <<"8", "6", "4", "0", "0", ".", "5">>,
     <<" ", "8", "6", "4", "0", "0", " ">>,
     <<"-", "1", ".", "5">>,
     <<"n", "a", "n">>,
     <<"i", "n", "f">>,
     <<".">>,
     <<"2", "5", "3", "4", "0", "2", "3", "0", "0", "8", "0", "0">>,
     <<"1", "6", "8", "5", "6", "2", "0", "8", "0", "0">>,
     <<"a", "b", "c">>,
     <<"1", "2", ":", "0", "0", ":", "0", "0">>}

DateTexts ==
    {d \o t \o z : d \in DateParts, t \in TimeParts, z \in ZoneParts} \cup OtherDateTexts

----------------------------------------------------------------------------
(* The commands.  One command runs at a time (last.op = "idle" between two); *)
(* a command's arguments are drawn from the sets it is given.  To bound the  *)
(* model, add and import run while the table has room, the id sequence is   *)
(* at most MaxId and no exported file is on disk.                            *)

Idle == [op |-> "idle"]

Room == IF nextId > MaxId THEN 0 ELSE MaxRecords - Len(expenses)

\* init-db [--force] of v1: --force drops the table and its sequence
InitDb ==
    /\ impl = 1 /\ last = Idle
    /\ \E force \in BOOLEAN :
        /\ expenses' = IF force THEN <<>> ELSE expenses
        /\ nextId' = IF force THEN 1 ELSE nextId
        /\ last' = [op |-> "init-db", force |-> force, before |-> expenses]
    /\ UNCHANGED <<impl, tz, disk>>

\* add of v1
Add ==
    /\ impl = 1 /\ last = Idle /\ Room > 0 /\ IsNone(disk)
    /\ \E c \in AddCommands, now \in NowValues :
        \E r \in {main_add(c.a, c.p, expenses, nextId, now)} :
            /\ expenses' = r.rows
            /\ nextId' = r.seq
            /\ last' = [op |-> "add", cmd |-> c, err |-> r.err, before |-> expenses]
    /\ UNCHANGED <<impl, tz, disk>>

\* import --file f [--header] of v1, for a file written by hand
Import ==
    /\ impl = 1 /\ last = Idle /\ Room > 0 /\ IsNone(disk)
    /\ \E file \in Files(Min(MaxLines, Room)), has_header \in BOOLEAN, now \in NowValues :
        \E r \in {import_from_csv(file, has_header, expenses, nextId, now)} :
            /\ expenses' = r.rows
            /\ nextId' = r.seq
            /\ last' = [op |-> "import", file |-> file, has_header |-> has_header,
                        imported |-> r.imported, before |-> expenses, exported |-> None]
    /\ UNCHANGED <<impl, tz, disk>>

\* import of the file export wrote
ImportExported ==
    /\ impl = 1 /\ last = Idle /\ ~IsNone(disk)
    /\ Len(Val(disk).file) - 1 <= Room
    /\ \E has_header \in BOOLEAN, now \in NowValues :
        \E r \in {import_from_csv(Val(disk).file, has_header, expenses, nextId, now)} :
            /\ expenses' = r.rows
            /\ nextId' = r.seq
            /\ last' = [op |-> "import", file |-> Val(disk).file, has_header |-> has_header,
                        imported |-> r.imported, before |-> expenses,
                        exported |-> Some(Val(disk).rows)]
    /\ UNCHANGED <<impl, tz, disk>>

\* list of v1
List(dates, categories, limits) ==
    /\ impl = 1 /\ last = Idle
    /\ \E since \in dates, until \in dates, category \in categories, limit \in limits :
        \E res \in {query_expenses(expenses, tz, limit, since, until, category)},
           arg \in {[limit |-> limit, since |-> since, until |-> until, category |-> category]} :
            \/ /\ res = {}
               /\ last' = [op |-> "list", arg |-> arg, err |-> "ValueError", rows |-> <<>>]
            \/ \E rows \in res :
                   last' = [op |-> "list", arg |-> arg, err |-> "", rows |-> rows]
    /\ UNCHANGED <<impl, tz, expenses, nextId, disk>>

\* summary of v1
Summary(periods, limits) ==
    /\ impl = 1 /\ last = Idle
    /\ \E period \in periods, limit \in limits :
        \E res \in {summary_by_period(expenses, tz, period, limit)} :
            \/ /\ res = {}
               /\ last' = [op |-> "summary", period |-> period, limit |-> limit,
                            err |-> "ValueError", rows |-> <<>>]
            \/ \E rows \in res :
                   last' = [op |-> "summary", period |-> period, limit |-> limit,
                            err |-> "", rows |-> rows]
    /\ UNCHANGED <<impl, tz, expenses, nextId, disk>>

\* category-report of v1
CategoryReport(dates, limits) ==
    /\ impl = 1 /\ last = Idle
    /\ \E since \in dates, until \in dates, limit \in limits :
        \E res \in {category_report(expenses, limit, since, until)},
           arg \in {[limit |-> limit, since |-> since, until |-> until]} :
            \/ /\ res = {}
               /\ last' = [op |-> "category-report", arg |-> arg, err |-> "ValueError", rows |-> <<>>]
            \/ \E rows \in res :
                   last' = [op |-> "category-report", arg |-> arg, err |-> "", rows |-> rows]
    /\ UNCHANGED <<impl, tz, expenses, nextId, disk>>

\* export of v1: query_expenses, then export_to_csv.  The file is kept with the
\* rows it was written from.
Export(dates, categories, limits) ==
    /\ impl = 1 /\ last = Idle
    /\ \E since \in dates, until \in dates, category \in categories, limit \in limits :
        \E res \in {query_expenses(expenses, tz, limit, since, until, category)} :
            \/ /\ res = {}
               /\ last' = [op |-> "export", err |-> "ValueError"]
               /\ disk' = disk
            \/ \E rows \in res :
                   /\ last' = [op |-> "export", err |-> ""]
                   /\ disk' = Some([file |-> export_to_csv(rows), rows |-> rows])
    /\ UNCHANGED <<impl, tz, expenses, nextId>>

\* import of v1 row by row.  While it runs, last holds the lines not yet read
\* (rest), the count so far, and txn: the table as the open transaction of
\* add_expense sees it after its INSERT, None when no transaction is open.
\* StartImport opens the file; csv.DictReader takes the first line as the field
\* names.
StartImport ==
    /\ impl = 1 /\ last = Idle /\ Room > 0 /\ IsNone(disk)
    /\ \E file \in Files(Min(MaxLines, Room)), has_header \in BOOLEAN :
        last' = [op |-> "importing", file |-> file, has_header |-> has_header,
                 rest |-> IF has_header /\ file # <<>> THEN Tail(file) ELSE file,
                 imported |-> 0, txn |-> None, before |-> expenses]
    /\ UNCHANGED <<impl, tz, expenses, nextId, disk>>

\* the try body for the next line up to the INSERT of add_expense: a line that
\* raises is rolled back and skipped, else the row waits for the commit.  The
\* sequence is advanced by a nextval whether or not the row is kept.
ImportInsert ==
    /\ impl = 1 /\ last.op = "importing" /\ last.rest # <<>> /\ IsNone(last.txn)
    /\ \E now \in NowValues :
        \E r \in {ImportLine(IF last.has_header THEN Some(Head(last.file)) ELSE None,
                             Head(last.rest), expenses, nextId, now)} :
            /\ nextId' = r.seq
            /\ last' = IF r.err = "" THEN [last EXCEPT !.txn = Some(r.rows)]
                       ELSE [last EXCEPT !.rest = Tail(last.rest)]
    /\ UNCHANGED <<impl, tz, expenses, disk>>

\* `with conn:` ends: the transaction commits and the row is in the table;
\* imported += 1
ImportCommit ==
    /\ impl = 1 /\ last.op = "importing" /\ ~IsNone(last.txn)
    /\ expenses' = Val(last.txn)
    /\ last' = [last EXCEPT !.txn = None, !.rest = Tail(last.rest),
                            !.imported = last.imported + 1]
    /\ UNCHANGED <<impl, tz, nextId, disk>>

\* the loop is over: import_from_csv logs the count and returns
FinishImport ==
    /\ impl = 1 /\ last.op = "importing" /\ last.rest = <<>>
    /\ last' = [op |-> "import", file |-> last.file, has_header |-> last.has_header,
                imported |-> last.imported, before |-> last.before, exported |-> None]
    /\ UNCHANGED <<impl, tz, expenses, nextId, disk>>

\* the process is killed while the import runs: PostgreSQL rolls an open
\* transaction back, what was committed stays
Crash ==
    /\ impl = 1 /\ last.op = "importing"
    /\ last' = [op |-> "crashed", file |-> last.file, has_header |-> last.has_header,
                rest |-> last.rest, before |-> last.before]
    /\ UNCHANGED <<impl, tz, expenses, nextId, disk>>

\* init-db of v2: CREATE TABLE IF NOT EXISTS
InitDb2 ==
    /\ impl = 2 /\ last = Idle
    /\ last' = [op |-> "init-db", force |-> FALSE, before |-> expenses]
    /\ UNCHANGED <<impl, tz, expenses, nextId, disk>>

\* add of v2: add_expense() with every argument prompted for
Add2 ==
    /\ impl = 2 /\ last = Idle /\ Room > 0 /\ IsNone(disk)
    /\ \E p \in Prompts, now \in NowValues :
        \E r \in {add_expense2(expenses, nextId, tz, None, None, None, None, p, now)} :
            /\ expenses' = r.rows
            /\ nextId' = r.seq
            /\ last' = [op |-> "add", cmd |-> p, err |-> r.err, before |-> expenses]
    /\ UNCHANGED <<impl, tz, disk>>

\* import of v2, for a file written by hand
Import2 ==
    /\ impl = 2 /\ last = Idle /\ Room > 0 /\ IsNone(disk)
    /\ \E file \in Files(Min(MaxLines, Room)), p \in ImportPrompts, now \in NowValues :
        \E r \in {import_csv(Some(file), expenses, nextId, tz, p, now)} :
            /\ expenses' = r.rows
            /\ nextId' = r.seq
            /\ last' = [op |-> "import", file |-> file, has_header |-> TRUE,
                        err |-> r.err, left |-> r.left, before |-> expenses,
                        exported |-> None]
    /\ UNCHANGED <<impl, tz, disk>>

\* import of v2 of the file export wrote
ImportExported2 ==
    /\ impl = 2 /\ last = Idle /\ ~IsNone(disk)
    /\ Len(Val(disk).file) - 1 <= Room
    /\ \E p \in ImportPrompts, now \in NowValues :
        \E r \in {import_csv(Some(Val(disk).file), expenses, nextId, tz, p, now)} :
            /\ expenses' = r.rows
            /\ nextId' = r.seq
            /\ last' = [op |-> "import", file |-> Val(disk).file, has_header |-> TRUE,
                        err |-> r.err, left |-> r.left, before |-> expenses,
                        exported |-> Some(Val(disk).rows)]
    /\ UNCHANGED <<impl, tz, disk>>

\* list of v2
List2 ==
    /\ impl = 2 /\ last = Idle
    /\ \E rows \in query_expenses2(expenses, tz) :
        last' = [op |-> "list",
                 arg |-> [limit |-> DefaultLimit2, since |-> None, until |-> None, category |-> None],
                 err |-> "", rows |-> rows]
    /\ UNCHANGED <<impl, tz, expenses, nextId, disk>>

\* summary of v2
Summary2 ==
    /\ impl = 2 /\ last = Idle
    /\ \E rows \in summary2(expenses, tz) :
        last' = [op |-> "summary", err |-> "", rows |-> rows]
    /\ UNCHANGED <<impl, tz, expenses, nextId, disk>>

\* category-report of v2
CategoryReport2 ==
    /\ impl = 2 /\ last = Idle
    /\ \E rows \in category_report2(expenses) :
        last' = [op |-> "category-report", err |-> "", rows |-> rows]
    /\ UNCHANGED <<impl, tz, expenses, nextId, disk>>

\* export of v2: no file is written when there are no rows
Export2 ==
    /\ impl = 2 /\ last = Idle
    /\ \E rows \in query_expenses2(expenses, tz) :
        \E file \in {export_csv(rows)} :
            /\ last' = [op |-> "export", err |-> ""]
            /\ disk' = IF IsNone(file) THEN disk
                       ELSE Some([file |-> Val(file), rows |-> rows])
    /\ UNCHANGED <<impl, tz, expenses, nextId>>

\* The store operations step by step, for the connection each one makes.  While
\* a process runs store operations, last holds the call, where it stands (pc),
\* what it raised (err), and conns: the connections the process has made, each
\* "open" or "closed", the last one that of the call running.

\* what a SELECT leaves: the table as it was; res = {} is parse_date or the
\* period check raising ValueError
Queried(res) ==
    [err |-> IF res = {} THEN "ValueError" ELSE "", rows |-> expenses, seq |-> nextId]

\* what the call c of program v does to the table, and what it raises
Outcome(v, c) ==
    CASE c.fn = "init_db" ->
           [err |-> "", rows |-> IF c.force THEN <<>> ELSE expenses,
            seq |-> IF c.force THEN 1 ELSE nextId]
      [] c.fn = "add_expense" /\ v = 1 -> main_add(c.c.a, c.c.p, expenses, nextId, c.now)
      [] c.fn = "add_expense" /\ v = 2 ->
           add_expense2(expenses, nextId, tz, None, None, None, None, c.c, c.now)
      [] c.fn = "query_expenses" /\ v = 1 ->
           Queried(query_expenses(expenses, tz, MaxLimit, c.since, None, None))
      [] c.fn = "query_expenses" /\ v = 2 -> Queried(query_expenses2(expenses, tz))
      [] c.fn = "summary_by_period" ->
           Queried(summary_by_period(expenses, tz, c.period, MaxLimit))
      [] c.fn = "summary" -> Queried(summary2(expenses, tz))
      [] c.fn = "category_report" /\ v = 1 ->
           Queried(category_report(expenses, MaxLimit, c.since, None))
      [] c.fn = "category_report" /\ v = 2 -> Queried(category_report2(expenses))

\* the exceptions raised before get_conn() is called: by parse_amount, by
\* parse_date, by the period check and by the checks of the prompts' answers
BeforeConnect == {"ArgumentTypeError", "ValueError"}

\* conn.close()
Closed(conns, i) == [conns EXCEPT ![i] = "closed"]

\* a store operation is called, in a new process or by one that has run some
\* already (as import calls add_expense row after row; in v2 an exception ends
\* the process)
StoreCall ==
    /\ \/ last = Idle
       \/ /\ last.op = "store" /\ last.pc = "ended" /\ Len(last.conns) < MaxConns
          /\ impl = 2 => last.err = ""
    /\ \E c \in StoreCalls(impl) :
        /\ c.fn = "add_expense" => (Room > 0 /\ IsNone(disk))
        /\ last' = [op |-> "store", call |-> c, pc |-> "called", err |-> "",
                    conns |-> IF last = Idle THEN <<>> ELSE last.conns]
    /\ UNCHANGED <<impl, tz, expenses, nextId, disk>>

\* up to get_conn(): what is raised before it ends the operation with no
\* connection made, and so does a connection that cannot be made
Connect ==
    /\ last.op = "store" /\ last.pc = "called"
    /\ \E r \in {Outcome(impl, last.call)}, made \in BOOLEAN :
        last' = IF r.err \in BeforeConnect
                THEN [last EXCEPT !.pc = "ended", !.err = r.err]
                ELSE IF ~made
                THEN [last EXCEPT !.pc = "ended", !.err = "OperationalError"]
                ELSE [last EXCEPT !.pc = "connected",
                                  !.conns = Append(last.conns, "open")]
    /\ UNCHANGED <<impl, tz, expenses, nextId, disk>>

\* the statement is executed in the connection's transaction, which commits, or
\* rolls back when the statement raises
Execute ==
    /\ last.op = "store" /\ last.pc = "connected"
    /\ \E r \in {Outcome(impl, last.call)} :
        /\ expenses' = r.rows
        /\ nextId' = r.seq
        /\ last' = [last EXCEPT !.pc = "executed", !.err = r.err]
    /\ UNCHANGED <<impl, tz, disk>>

\* v1: `finally: conn.close()`, whether or not the statement raised
CloseConn ==
    /\ impl = 1 /\ last.op = "store" /\ last.pc = "executed"
    /\ last' = [last EXCEPT !.pc = "ended",
                            !.conns = Closed(last.conns, Len(last.conns))]
    /\ UNCHANGED <<impl, tz, expenses, nextId, disk>>

\* v2: `with get_conn() as conn:` ends.  psycopg2's connection as a context
\* manager ends the transaction and leaves the connection open.  When the
\* function returns nothing refers to the connection any more, and a Python
\* that counts references closes it there and then, another at some later
\* collection; when it raises, the traceback refers to it.
LeaveWith ==
    /\ impl = 2 /\ last.op = "store" /\ last.pc = "executed"
    /\ \E finalized \in BOOLEAN :
        last' = [last EXCEPT !.pc = "ended",
                            !.conns = IF finalized /\ last.err = ""
                                      THEN Closed(last.conns, Len(last.conns))
                                      ELSE last.conns]
    /\ UNCHANGED <<impl, tz, expenses, nextId, disk>>

\* v2: a connection nothing refers to is collected, which closes it
Collect ==
    /\ impl = 2 /\ last.op = "store" /\ last.pc = "ended"
    /\ \E i \in 1..Len(last.conns) :
        /\ last.conns[i] = "open"
        /\ ~(i = Len(last.conns) /\ last.err # "")
        /\ last' = [last EXCEPT !.conns = Closed(last.conns, i)]
    /\ UNCHANGED <<impl, tz, expenses, nextId, disk>>

\* a call of parse_date on a text
ParseDate ==
    /\ impl = 1 /\ last = Idle
    /\ \E s \in DateTexts :
        last' = [op |-> "parse_date", s |-> s, r |-> parse_date(Some(s))]
    /\ UNCHANGED <<impl, tz, expenses, nextId, disk>>

\* the command ends
Exit ==
    /\ last # Idle
    /\ last' = Idle
    /\ UNCHANGED <<impl, tz, expenses, nextId, disk>>

\* the exported file is removed
RemoveFile ==
    /\ last = Idle /\ ~IsNone(disk)
    /\ disk' = None
    /\ UNCHANGED <<impl, tz, expenses, nextId, last>>

Init ==
    /\ impl \in {1, 2}
    /\ tz \in SessionZones
    /\ expenses = <<>>
    /\ nextId = 1
    /\ disk = None
    /\ last = Idle

Next ==
    \/ InitDb
    \/ Add
    \/ Import
    \/ ImportExported
    \/ List({None}, {None}, {MaxLimit})
    \/ Summary({"month"}, {MaxLimit})
    \/ CategoryReport({None}, {MaxLimit})
    \/ Export({None}, {None}, {MaxLimit})
    \/ InitDb2
    \/ Add2
    \/ Import2
    \/ ImportExported2
    \/ List2
    \/ Summary2
    \/ CategoryReport2
    \/ Export2
    \/ Exit
    \/ RemoveFile

Spec == Init /\ [][Next]_vars

\* the commands one at a time, with the filters, periods and limits of the model
NextList ==
    \/ Add
    \/ Add2
    \/ List(FilterDates \cup {Some(Junk)}, FilterCategories, 0..MaxLimit)
    \/ List2
    \/ Exit

SpecList == Init /\ [][NextList]_vars

NextReport ==
    \/ Add
    \/ Add2
    \/ CategoryReport(FilterDates \cup {Some(Junk)}, 1..MaxLimit)
    \/ CategoryReport2
    \/ Exit

SpecReport == Init /\ [][NextReport]_vars

NextSummary ==
    \/ Add
    \/ Add2
    \/ Summary(Periods, 0..MaxLimit)
    \/ Summary2
    \/ Exit

SpecSummary == Init /\ [][NextSummary]_vars

\* parse_date alone, on every text of DateTexts
NextParse ==
    \/ ParseDate
    \/ Exit

SpecParse == Init /\ [][NextParse]_vars

\* import of v1 one row at a time, with a crash at any point of it
NextImport ==
    \/ Add
    \/ StartImport
    \/ ImportInsert
    \/ ImportCommit
    \/ FinishImport
    \/ Crash
    \/ Exit

SpecImport == Init /\ [][NextImport]_vars

\* the store operations one step at a time; Exit is the end of the process
NextStore ==
    \/ StoreCall
    \/ Connect
    \/ Execute
    \/ CloseConn
    \/ LeaveWith
    \/ Collect
    \/ Exit

SpecStore == Init /\ [][NextStore]_vars

----------------------------------------------------------------------------
(* parse_date (C10) *)

\* the first of the four formats text s matches, 0 when it matches none
FirstFormat(s) ==
    LET ks == {k \in 1..Len(DateFormats) : ~IsNone(strptime(s, DateFormats[k]))}
    IN  IF ks = {} THEN 0 ELSE CHOOSE k \in ks : \A j \in ks : k <= j

\* text s is a Unix timestamp: a number that is the second of some datetime
IsTimestamp(s) == ~IsNone(float(s)) /\ ~IsNone(fromtimestamp(Val(float(s))))

\* what the claim has parse_date do on text s with result r: the instant of the
\* first format that matches, at the offset written or else at UTC; the
\* timestamp's instant when only that matches; an error when nothing matches
DateParsedAsClaimed(s, r) ==
    LET k == FirstFormat(s)
        f == Val(strptime(s, DateFormats[k]))
        off == IF IsNone(f.off) THEN 0 ELSE Val(f.off)
    IN  IF k > 0
        THEN /\ ~Raised(r) /\ ~IsNone(r.val)
             /\ Val(r.val).off = off
             /\ Fields(Val(r.val).inst, off) = [x \in DOMAIN Fields(Val(r.val).inst, off) |-> f[x]]
             /\ (k > 1 => off = 0)
        ELSE IF IsTimestamp(s)
        THEN /\ ~Raised(r) /\ ~IsNone(r.val)
             /\ Val(r.val).off = 0
             /\ Val(r.val).inst = Val(fromtimestamp(Val(float(s)))).inst
        ELSE Raised(r)

----------------------------------------------------------------------------
(* list (C3) *)

\* the instant a --since / --until argument names, None when the filter is
\* omitted (not given, or given empty)
FilterInstant(arg) == IF Truthy(arg) THEN parse_date(arg).val ELSE None

\* the stored records a list command with arguments a must choose from
Matching(a) ==
    {r \in RowSet(expenses) :
        /\ (~IsNone(FilterInstant(a.since)) => InstLE(Val(FilterInstant(a.since)).inst, r.created_at))
        /\ (~IsNone(FilterInstant(a.until)) => InstLE(r.created_at, Val(FilterInstant(a.until)).inst))
        /\ (Truthy(a.category) => r.category = Val(a.category))}

----------------------------------------------------------------------------
(* category-report (C6, C7) *)

\* the letters in their order
Letters ==
    <<"A", "B", "C", "D", "E", "F", "G", "H", "I", "J", "K", "L", "M",
      "N", "O", "P", "Q", "R", "S", "T", "U", "V", "W", "X", "Y", "Z",
      "a", "b", "c", "d", "e", "f", "g", "h", "i", "j", "k", "l", "m",
      "n", "o", "p", "q", "r", "s", "t", "u", "v", "w", "x", "y", "z">>

\* the place of a character among the letters, 0 for any other
Rank(c) ==
    IF \E i \in 1..Len(Letters) : Letters[i] = c
    THEN CHOOSE i \in 1..Len(Letters) : Letters[i] = c
    ELSE 0

RECURSIVE NameBefore(_, _)
\* category name a comes before name b
NameBefore(a, b) ==
    IF b = <<>> THEN FALSE
    ELSE IF a = <<>> THEN TRUE
    ELSE IF a[1] # b[1] THEN Rank(a[1]) < Rank(b[1])
    ELSE NameBefore(Tail(a), Tail(b))

\* C6: the category report is ordered by total descending with ties broken by
\* category name ascending, so its order is determined by the records alone.
C6_TotalDescThenName ==
    (last.op = "category-report" /\ last.err = "") =>
        \A i, j \in 1..Len(last.rows) :
            i < j => \/ last.rows[i].total > last.rows[j].total
                     \/ /\ last.rows[i].total = last.rows[j].total
                        /\ NameBefore(last.rows[i].category, last.rows[j].category)

RECURSIVE Sum(_)
\* the sum of a sequence of numbers
Sum(q) == IF q = <<>> THEN 0 ELSE Head(q) + Sum(Tail(q))

\* the count a report's tuple gives
CountOf(g) == IF impl = 1 THEN g.cnt ELSE g.count

\* what an unfiltered scan may return for a limit
Scans(limit) ==
    IF impl = 1 THEN query_expenses(expenses, tz, limit, None, None, None)
    ELSE query_expenses2(expenses, tz)

\* a category report without since / until is on screen
ReportShown ==
    /\ last.op = "category-report" /\ last.err = ""
    /\ impl = 1 => (~Truthy(last.arg.since) /\ ~Truthy(last.arg.until))

\* the report's totals and counts add up to the amounts and the number of the
\* records the scan returned
ReportAgrees(scan) ==
    /\ Sum([i \in 1..Len(last.rows) |-> last.rows[i].total])
           = Sum([i \in 1..Len(scan) |-> scan[i].amount])
    /\ Sum([i \in 1..Len(last.rows) |-> CountOf(last.rows[i])]) = Len(scan)

\* C7 as stated: the totals of the tuples a category report (no since / until)
\* returns add up to the amounts of the records an unfiltered scan returns, and
\* its counts to their number, whatever the limits of the two.
C7_ReportSumEqualsScanSum ==
    ReportShown => \A limit \in 1..MaxLimit : \A scan \in Scans(limit) : ReportAgrees(scan)

\* the limit the report was run with, and whether a limit cuts nothing off
ReportWhole ==
    impl = 1 => last.arg.limit >= Cardinality({r.category : r \in RowSet(expenses)})

ScanWhole(limit) == (IF impl = 1 THEN limit ELSE DefaultLimit2) >= Len(expenses)

\* C7 amended: the same whenever neither limit cuts anything off: the report's
\* limit is at least the number of categories and the scan's at least the
\* number of records.
C7_SumsAgreeWhenNothingIsCutOff ==
    (ReportShown /\ ReportWhole) =>
        \A limit \in 1..MaxLimit : ScanWhole(limit) =>
            \A scan \in Scans(limit) : ReportAgrees(scan)

\* C7 witness: a report of one category that holds two records, with nothing
\* cut off
C7_Witness ==
    /\ ReportShown /\ ReportWhole /\ impl = 1
    /\ Len(expenses) = 2 /\ ScanWhole(MaxLimit)
    /\ Len(last.rows) = 1 /\ last.rows[1].cnt = 2
    /\ last.rows[1].total = expenses[1].amount + expenses[2].amount

----------------------------------------------------------------------------
(* summary (C8) *)

\* a Monday, 2023-05-29, in days since the epoch
AMonday == DaysFromCivil(2023, 5, 29)

\* instant p is where a period of the kind begins in zone z: the first of a
\* month, or a Monday, at midnight
PeriodStart(kind, p, z) ==
    LET f == Fields(p, z)
    IN  /\ f.H = 0 /\ f.M = 0 /\ f.S = 0 /\ f.us = 0
        /\ IF kind = "month" THEN f.d = 1
           ELSE (DaysFromCivil(f.Y, f.m, f.d) - AMonday) % 7 = 0

\* the period of the kind that begins at p contains instant t
PeriodContains(kind, p, t, z) ==
    /\ PeriodStart(kind, p, z)
    /\ IF kind = "month"
       THEN Fields(p, z).Y = Fields(t, z).Y /\ Fields(p, z).m = Fields(t, z).m
       ELSE p.s <= t.s /\ t.s < p.s + 7 * 86400

\* the records of the store in the period that begins at p
InPeriod(kind, p, z) == {r \in RowSet(expenses) : PeriodContains(kind, p, r.created_at, z)}

\* a number that grows with the period of a summary row of either program
PeriodKey(b) == IF impl = 1 THEN b.period.inst.s ELSE b.month.year * 12 + b.month.mon

\* C8 as stated, of the order and the limit: each program's period summary
\* lists its buckets by period descending, and no more of them than the limit.
C8_SummaryNewestFirst ==
    (last.op = "summary" /\ last.err = "") =>
        /\ \A i, j \in 1..Len(last.rows) : i < j => PeriodKey(last.rows[i]) > PeriodKey(last.rows[j])
        /\ impl = 1 => Len(last.rows) <= last.limit

\* C8 for src/expense_tracker.py alone: summary_by_period, for period week or
\* month, puts every stored record in the bucket of the period that contains
\* its created_at (in the session's time zone), reports each bucket's number of
\* records and the exact sum of their amounts, lists the buckets by period
\* descending and returns the first `limit` of them; any other period is an error.
C8_SummaryByPeriod ==
    (impl = 1 /\ last.op = "summary") =>
        LET kind == last.period
            rows == last.rows
        IN  IF kind \notin {"week", "month"} THEN last.err # ""
            ELSE /\ last.err = ""
                 /\ \A i \in 1..Len(rows) :
                        /\ rows[i].period.off = tz
                        /\ InPeriod(kind, rows[i].period.inst, tz) # {}
                        /\ rows[i].count = Cardinality(InPeriod(kind, rows[i].period.inst, tz))
                        /\ rows[i].total = SumAmounts(InPeriod(kind, rows[i].period.inst, tz))
                 /\ \A i, j \in 1..Len(rows) :
                        i < j => InstLT(rows[j].period.inst, rows[i].period.inst)
                 /\ \A r \in RowSet(expenses) :
                        \/ \E i \in 1..Len(rows) : r \in InPeriod(kind, rows[i].period.inst, tz)
                        \/ /\ Len(rows) = last.limit
                           /\ \A i \in 1..Len(rows) : InstLT(r.created_at, rows[i].period.inst)

\* the case of C8_SummaryByPeriod: with records in two months, a month summary with limit 1
\* returned the later month's bucket alone
C8_Witness ==
    /\ impl = 1 /\ last.op = "summary" /\ last.err = ""
    /\ last.period = "month" /\ last.limit = 1 /\ Len(last.rows) = 1
    /\ \E r \in RowSet(expenses) : InstLT(r.created_at, last.rows[1].period.inst)
    /\ \E r \in RowSet(expenses) : r \in InPeriod("month", last.rows[1].period.inst, tz)

----------------------------------------------------------------------------
(* import and export (C1, C2) *)

\* the lines of data of the file an import read, and the field names it read
\* them by (None: by position)
DataLines == IF last.has_header THEN Tail(last.file) ELSE last.file

FieldNames == IF last.has_header THEN Some(Head(last.file)) ELSE None

\* the cell of a line under a column: by name, or by position without header;
\* None when the column or the cell is missing
CellOf(line, key, pos) ==
    IF IsNone(FieldNames) THEN (IF pos <= Len(line) THEN Some(line[pos]) ELSE None)
    ELSE DictCell(Val(FieldNames), line, key).cell

\* the date cell of a line is absent, empty or a text the program's store can
\* take as a date
DateReadable(line) ==
    LET c == CellOf(line, ColCreatedAt, 4)
    IN  \/ ~Truthy(c)
        \/ IF impl = 1 THEN ~Raised(parse_date(c)) ELSE ~IsNone(pg_timestamptz(Val(c), tz))

\* a well-formed line: amount and category are there, the amount is a decimal,
\* the date is readable, and the values fit the columns of the table
WellFormed(line) ==
    LET a == CellOf(line, ColAmount, 1)
        c == CellOf(line, ColCategory, 2)
        d == CellOf(line, ColDescription, 3)
    IN  /\ ~IsNone(a) /\ ~IsNone(Decimal(Val(a)))
        /\ ~IsNone(c) /\ Len(Val(c)) <= Val(Schema(impl).categoryMax)
        /\ DateReadable(line)
        /\ (~IsNone(d) /\ ~IsNone(Schema(impl).descriptionMax))
               => Len(Val(d)) <= Val(Schema(impl).descriptionMax)
        /\ Schema(impl).checkPositive => ToCents(Val(Decimal(Val(a)))) > 0

\* the well-formed lines of the file, in the order of the file
GoodLines == SelectSeq(DataLines, WellFormed)

\* C1: bulk import takes every row on its own: a malformed row is skipped and
\* the rows after it are still imported, the store gains one record for each
\* well-formed row and none for a malformed one, and the count the import gives
\* is the number of rows inserted.
C1_ImportRowsIndependent ==
    (last.op = "import" /\ last.file # <<>>) =>
        /\ Len(expenses) = Len(last.before) + Len(GoodLines)
        /\ \A i \in 1..Len(last.before) : expenses[i] = last.before[i]
        /\ \A k \in 1..Len(GoodLines) :
               Len(last.before) + k <= Len(expenses) =>
                   /\ expenses[Len(last.before) + k].category = Val(CellOf(GoodLines[k], ColCategory, 2))
                   /\ expenses[Len(last.before) + k].amount
                          = ToCents(Val(Decimal(Val(CellOf(GoodLines[k], ColAmount, 1)))))
        /\ impl = 1 => last.imported = Len(expenses) - Len(last.before)

\* the number of records of a sequence with the given amount, category,
\* description and instant
Copies(rows, a, c, d, t) ==
    Cardinality({i \in 1..Len(rows) :
                    /\ rows[i].amount = a /\ rows[i].category = c
                    /\ rows[i].description = d /\ rows[i].created_at = t})

\* C2: exporting records to CSV and importing that file with the header into a
\* fresh store gives back records equal to the exported ones in amount,
\* category, description and created_at, a null description and a created_at
\* shown at a non-UTC offset included.
C2_ExportImportRoundTrip ==
    (/\ last.op = "import" /\ ~IsNone(last.exported)
     /\ last.has_header /\ last.before = <<>>) =>
        LET out == Val(last.exported)
        IN  /\ Len(expenses) = Len(out)
            /\ \A i \in 1..Len(out) :
                   Copies(expenses, out[i].amount, out[i].category, out[i].description,
                          out[i].created_at.inst)
                     = Cardinality({j \in 1..Len(out) :
                           /\ out[j].amount = out[i].amount
                           /\ out[j].category = out[i].category
                           /\ out[j].description = out[i].description
                           /\ out[j].created_at.inst = out[i].created_at.inst})

----------------------------------------------------------------------------
(* the stored records (C4, C5, C9) *)

\* C4: every stored record has an amount greater than zero: add and import
\* refuse an amount that is zero or negative and leave the store as it was.
C4_AmountsPositive ==
    \A i \in 1..Len(expenses) : expenses[i].amount > 0

\* C5: every stored record has a category that is not empty and no longer than
\* the bound, and a description, when it has one, no longer than its bound;
\* add and import alike refuse any other.
C5_CategoryAndDescriptionBounded ==
    \A i \in 1..Len(expenses) :
        /\ expenses[i].category # <<>>
        /\ Len(expenses[i].category) <= Val(Schema(impl).categoryMax)
        /\ ~IsNone(expenses[i].description)
               => Len(Val(expenses[i].description)) <= DescriptionMax2

\* one step of a store that is append-only: the records there stay as they
\* are, a new record's id is above every id given out before, and only add and
\* import change the records
AppendOnlyStep ==
    /\ \A i \in 1..Len(expenses) : expenses[i].id < nextId
    /\ Len(expenses') >= Len(expenses)
    /\ \A i \in 1..Len(expenses) : expenses'[i] = expenses[i]
    /\ \A i \in (Len(expenses) + 1)..Len(expenses') :
           /\ expenses'[i].id >= nextId
           /\ \A j \in 1..(i - 1) : expenses'[j].id < expenses'[i].id
    /\ nextId' >= nextId
    /\ expenses' # expenses => last'.op \in {"add", "import"}

\* C9 as stated: the store is append-only under every sequence of commands,
\* init-db included: no record is removed or changed, every insert gives an id
\* above all ids given before, and only add and import alter the records.
C9_AppendOnly == [][AppendOnlyStep]_vars

\* init-db --force: the table is dropped, and with it the records and the ids
ForceStep == last'.op = "init-db" /\ last'.force /\ expenses' = <<>> /\ nextId' = 1

\* C9 amended: the same under every sequence of commands except init-db
\* --force, which removes every record and starts the ids again at 1.
C9_AppendOnlyButForce == [][AppendOnlyStep \/ ForceStep]_vars

\* C9 witness: an add put a second record after the first, with a greater id
C9_Witness ==
    /\ last.op = "add" /\ last.err = ""
    /\ Len(last.before) = 1 /\ Len(expenses) = 2
    /\ expenses[1] = last.before[1]
    /\ expenses[2].id > expenses[1].id

----------------------------------------------------------------------------
(* import, row by row (C11) *)

\* the lines of data the import has dealt with: read, and either committed or
\* skipped
LinesDone ==
    IF last.file = <<>> THEN <<>>
    ELSE SubSeq(DataLines, 1, Len(DataLines) - Len(last.rest))

\* the records the store holds beyond those it held when the import began
Added == SubSeq(expenses, Len(last.before) + 1, Len(expenses))

\* rec is the whole record of line: every column is there, and amount,
\* category, description and created_at are those of the line (the clock's
\* reading when the line gives no date)
RecordOf(rec, line) ==
    /\ DOMAIN rec = {"id", "amount", "category", "description", "created_at"}
    /\ rec.amount = ToCents(Val(Decimal(Val(CellOf(line, ColAmount, 1)))))
    /\ rec.category = Val(CellOf(line, ColCategory, 2))
    /\ IF IsNone(CellOf(line, ColDescription, 3))
       THEN rec.description \in {None, Some(<<>>)}
       ELSE rec.description = CellOf(line, ColDescription, 3)
    /\ IF Truthy(CellOf(line, ColCreatedAt, 4))
       THEN rec.created_at = Val(parse_date(CellOf(line, ColCreatedAt, 4)).val).inst
       ELSE rec.created_at \in NowValues

\* the store holds what it held before the import, then one whole record for
\* each well-formed line of `lines`, in their order, and nothing else
HoldsExactly(lines) ==
    /\ Len(expenses) >= Len(last.before)
    /\ SubSeq(expenses, 1, Len(last.before)) = last.before
    /\ Len(Added) = Len(SelectSeq(lines, WellFormed))
    /\ \A i \in 1..Len(Added) : RecordOf(Added[i], SelectSeq(lines, WellFormed)[i])
    /\ \A i, j \in 1..Len(expenses) : i < j => expenses[i].id < expenses[j].id

\* C11: at every point of an import, and after a crash at any point of it, the
\* records the import has added to the store are exactly the well-formed rows
\* of a prefix of the file (the rows dealt with so far), in file order, each
\* one whole; no later row is in the store, and a row whose transaction is
\* still open is not.
C11_ImportLeavesPrefix ==
    (last.op \in {"importing", "crashed"}) => HoldsExactly(LinesDone)

\* the import is killed inside the transaction of its second row: the first
\* row is in the store, the second is not, and its id is spent
C11_Witness ==
    /\ last.op = "crashed" /\ last.file = <<LineFood, LineRent>>
    /\ last.rest = <<LineRent>>
    /\ Len(expenses) = 1 /\ expenses[1].category = Food
    /\ nextId = 3

----------------------------------------------------------------------------
(* the connections of the store operations (C12) *)

\* the connections of the process that are open
OpenConns == {i \in 1..Len(last.conns) : last.conns[i] = "open"}

\* the connection of the operation that is running, if it has made one
OwnConn == IF last.pc \in {"connected", "executed"} THEN {Len(last.conns)} ELSE {}

\* C12: every store operation has closed the connection it made by the time it
\* ends, whether it returned or raised: the only connection that is ever open
\* is that of the operation running, and none is once the operation has ended.
C12_ConnectionsReleased ==
    last.op = "store" => OpenConns \subseteq OwnConn

\* C12 for src/expense_tracker.py alone, whose operations close in a finally
C12_ClosedInFinally ==
    (impl = 1 /\ last.op = "store") => OpenConns \subseteq OwnConn

\* an INSERT of src/expense_tracker.py has raised, and its connection is closed
C12_Witness ==
    /\ impl = 1 /\ last.op = "store" /\ last.pc = "ended"
    /\ last.call.fn = "add_expense" /\ last.err = "DataError"
    /\ last.conns = <<"closed">>

====
